---- MODULE Spec2Model ----
(***************************************************************************)
(* A model of src/test-vul/auth.c: the credential store (users[],          *)
(* user_count), login, register_user, allocate_session, process_token and  *)
(* check_and_read_config.                                                  *)
(*                                                                         *)
(* The globals live in a flat byte memory `mem`, so that a strcpy that     *)
(* runs past a 32-byte field lands in the bytes that follow it, as it does *)
(* in the compiled program.  A C string in memory is the bytes from an     *)
(* address up to the first 0.  The field widths, the buffer sizes and the  *)
(* token threshold are the values of the source; the capacity MAX_USERS is *)
(* scaled down (the source has 100): every property stated about it is     *)
(* stated for a capacity N.  The width of size_t is scaled down as well.   *)
(*                                                                         *)
(* The three groups of functions share no state, and each has its own      *)
(* specification: Spec (login, register_user), SpecSession                 *)
(* (allocate_session, process_token), SpecFile (check_and_read_config and  *)
(* the actor that changes the file system under it).                       *)
(***************************************************************************)
EXTENDS Integers, Sequences, FiniteSets, TLC

VARIABLES
    mem,        \* the bytes of the globals users[] and user_count
    count_addr, \* where the linker placed user_count (fixed per build)
    crashed,    \* the process was killed by a memory fault
    created,    \* history: per index, the last register_user call that filled it
    fs,         \* what the path given to check_and_read_config resolves to
    car,        \* check_and_read_config's position between access and fopen
    lastOp      \* the last completed call: its inputs and what it produced

vars == <<mem, count_addr, crashed, created, fs, car, lastOp>>

-----------------------------------------------------------------------------
(* Sizes *)

\* #define MAX_USERS 100, scaled down
MAX_USERS == 2

\* char username[32]
USERNAME_SIZE == 32

\* char password[32]
PASSWORD_SIZE == 32

\* sizeof(int), the width of is_admin and of user_count
INT_SIZE == 4

\* sizeof(User): username, password, is_admin, no padding
USER_SIZE == USERNAME_SIZE + PASSWORD_SIZE + INT_SIZE

\* char buffer[64] in login
BUFFER_SIZE == 64

\* char query[256] in login
QUERY_SIZE == 256

\* the characters of login's sprintf format other than its two %s
QUERY_FIXED == 53

\* the address of users[0] (the array is 32-byte aligned); the bytes below it
\* hold user_count in the builds that place it before the array
USERS_ADDR == 8 * INT_SIZE

UsersEnd == USERS_ADDR + MAX_USERS * USER_SIZE

MemSize == UsersEnd + INT_SIZE

Addrs == 0 .. (MemSize - 1)

\* the two placements of user_count seen in builds of the source: directly
\* after users[] (gcc -O0) and before it (gcc -O2)
CountPlacements == {UsersEnd, 0}

-----------------------------------------------------------------------------
(* Strings *)

Rep(c, n) == [i \in 1..n |-> c]

Max(a, b) == IF a > b THEN a ELSE b

MinOf(S) == CHOOSE x \in S : \A y \in S : x <= y

\* #define ADMIN_PASSWORD "admin123"
ADMIN_PASSWORD == "admin123"

\* a username as long as a whole record (68 characters): its terminating 0
\* is the first byte after the record
long68 == "aaaaaaaaaaaaaaaaaaaaaaaaaaaaaaaaaaaaaaaaaaaaaaaaaaaaaaaaaaaaaaaaaaaa"

\* a password one character longer than its field (33 characters)
long33 == "aaaaaaaaaaaaaaaaaaaaaaaaaaaaaaaaa"

\* 32 characters followed by the admin password
long32pw == "aaaaaaaaaaaaaaaaaaaaaaaaaaaaaaaaadmin123"

\* the bytes of a char* argument (ASCII), without the terminating 0
Bytes(s) ==
    CASE s = "admin" -> <<97, 100, 109, 105, 110>>
      [] s = "admin123" -> <<97, 100, 109, 105, 110, 49, 50, 51>>
      [] s = "bob" -> <<98, 111, 98>>
      [] s = "%n" -> <<37, 110>>
      [] s = long68 -> Rep(97, USER_SIZE)
      [] s = long33 -> Rep(97, PASSWORD_SIZE + 1)
      [] s = long32pw -> Rep(97, USERNAME_SIZE) \o <<97, 100, 109, 105, 110, 49, 50, 51>>

Names == {"admin", "bob", long68}

Passwords == {ADMIN_PASSWORD, long33}

LoginNames == Names \cup {long32pw, "%n"}

-----------------------------------------------------------------------------
(* Memory *)

\* the byte at address a
Peek(m, a) == m[a]

InMem(addr, n) == addr >= 0 /\ addr + n <= MemSize

\* the bytes `bytes` stored from `addr` on
Poke(m, addr, bytes) ==
    [a \in Addrs |->
        IF a >= addr /\ a < addr + Len(bytes) THEN bytes[a - addr + 1] ELSE m[a]]

\* strcpy(dst, s): the characters of s and the terminating 0, however long
strcpy(m, dst, s) == Poke(m, dst, s \o <<0>>)

\* the scan of strlen: n bytes from addr on were not 0
RECURSIVE ScanNul(_, _, _)
ScanNul(m, addr, n) ==
    IF addr + n >= MemSize \/ Peek(m, addr + n) = 0
    THEN n
    ELSE ScanNul(m, addr, n + 1)

\* strlen of the C string at addr: the bytes before the first 0
strlen(m, addr) == ScanNul(m, addr, 0)

\* the C string at addr
CStr(m, addr) == [i \in 1..strlen(m, addr) |-> Peek(m, addr + i - 1)]

\* a little-endian int
ReadInt(m, addr) ==
    Peek(m, addr) + 256 * Peek(m, addr + 1) + 65536 * Peek(m, addr + 2)
    + 16777216 * (IF Peek(m, addr + 3) >= 128
                  THEN Peek(m, addr + 3) - 256
                  ELSE Peek(m, addr + 3))

IntBytes(v) ==
    <<v % 256, (v \div 256) % 256, (v \div 65536) % 256, (v \div 16777216) % 256>>

WriteInt(m, addr, v) == Poke(m, addr, IntBytes(v))

\* &users[i].username
UserAddr(i) == USERS_ADDR + i * USER_SIZE

\* &users[i].password
PasswordAddr(i) == UserAddr(i) + USERNAME_SIZE

\* &users[i].is_admin
IsAdminAddr(i) == UserAddr(i) + USERNAME_SIZE + PASSWORD_SIZE

user_count == ReadInt(mem, count_addr)

\* the text a field of `size` bytes holds: its bytes up to the first 0, and
\* never more than the field
FieldText(m, addr, size) ==
    LET n == strlen(m, addr) IN
    [i \in 1..(IF n < size THEN n ELSE size) |-> Peek(m, addr + i - 1)]

-----------------------------------------------------------------------------
(* register_user *)

\* The memory after register_user's four stores.  users[user_count] is
\* evaluated anew for each statement, so a store that reaches user_count
\* moves the stores after it.  fault: a store outside the mapped globals.
RegisterStores(m, ca, username, password) ==
    LET c0 == ReadInt(m, ca)
        ok1 == InMem(UserAddr(c0), Len(username) + 1)
        m1 == IF ok1 THEN strcpy(m, UserAddr(c0), username) ELSE m
        c1 == ReadInt(m1, ca)
        ok2 == ok1 /\ InMem(PasswordAddr(c1), Len(password) + 1)
        m2 == IF ok2 THEN strcpy(m1, PasswordAddr(c1), password) ELSE m1
        c2 == ReadInt(m2, ca)
        ok3 == ok2 /\ InMem(IsAdminAddr(c2), INT_SIZE)
        m3 == IF ok3 THEN WriteInt(m2, IsAdminAddr(c2), 0) ELSE m2
        c3 == ReadInt(m3, ca)
        m4 == IF ok3 THEN WriteInt(m3, ca, c3 + 1) ELSE m3
    IN  [mem |-> m4, fault |-> ~ok3]

\* if (user_count >= MAX_USERS) { printf("Max users reached\n"); return; }
StoreFull(m, ca) == ReadInt(m, ca) >= MAX_USERS

\* no register_user call has filled the index
NoUser == [username |-> "", password |-> ""]

\* result: "CapacityExceeded" is the return after "Max users reached", "Ok"
\* the return after "User registered", "Crash" a store outside the globals
register_user(username, password) ==
    /\ ~crashed
    /\ car.pc = "idle"
    /\ LET old == user_count IN
       IF StoreFull(mem, count_addr)
       THEN /\ lastOp' = [op |-> "register", username |-> username,
                          password |-> password, result |-> "CapacityExceeded",
                          oldCount |-> old, newCount |-> old]
            /\ UNCHANGED <<mem, crashed, created>>
       ELSE LET r == RegisterStores(mem, count_addr,
                                    Bytes(username), Bytes(password)) IN
            /\ mem' = r.mem
            /\ crashed' = r.fault
            /\ IF r.fault
               THEN /\ lastOp' = [op |-> "register", username |-> username,
                                  password |-> password, result |-> "Crash",
                                  oldCount |-> old, newCount |-> old]
                    /\ UNCHANGED created
               ELSE /\ lastOp' = [op |-> "register", username |-> username,
                                  password |-> password, result |-> "Ok",
                                  oldCount |-> old,
                                  newCount |-> ReadInt(r.mem, count_addr)]
                    /\ created' = [created EXCEPT ![old] =
                                     [username |-> username,
                                      password |-> password]]
    /\ UNCHANGED <<count_addr, fs, car>>

-----------------------------------------------------------------------------
(* login *)

\* strcpy(buffer, username); strcat(buffer, ":"); strcat(buffer, password):
\* the bytes stored into buffer, the terminating 0 included
BufferBytes(username, password) == Len(username) + 1 + Len(password) + 1

\* the bytes of them stored past the end of buffer[64]
BufferOverrun(username, password) ==
    Max(0, BufferBytes(username, password) - BUFFER_SIZE)

\* sprintf(query, "SELECT ... username='%s' AND password='%s'", ...): the
\* bytes stored into query, the terminating 0 included
QueryBytes(username, password) == QUERY_FIXED + Len(username) + Len(password) + 1

\* the bytes of them stored past the end of query[256]
QueryOverrun(username, password) ==
    Max(0, QueryBytes(username, password) - QUERY_SIZE)

\* printf(username): a '%' in the username is read as a conversion, for which
\* no argument was passed
FormatConversion(username) == \E i \in 1..Len(username) : username[i] = 37

\* strcmp(users[i].username, username) == 0 &&
\* strcmp(users[i].password, password) == 0
RecordMatches(m, i, username, password) ==
    /\ CStr(m, UserAddr(i)) = username
    /\ CStr(m, PasswordAddr(i)) = password

\* the records the loop for (i = 0; i < user_count; i++) reads inside users[]
Scanned(m, ca) == {i \in 0..(MAX_USERS - 1) : i < ReadInt(m, ca)}

\* strcmp(username, "admin") == 0 && strcmp(password, ADMIN_PASSWORD) == 0
AdminCheck(username, password) ==
    username = Bytes("admin") /\ password = Bytes(ADMIN_PASSWORD)

\* the loop: the first record that matches returns
ScanCheck(m, ca, username, password) ==
    LET hits == {i \in Scanned(m, ca) : RecordMatches(m, i, username, password)}
    IN  IF hits # {}
        THEN [result |-> "UserGranted", index |-> MinOf(hits)]
        ELSE [result |-> "Denied", index |-> -1]

\* login with the scan of the store made before the admin check
LoginCheckScanFirst(m, ca, username, password) ==
    LET found == ScanCheck(m, ca, username, password)
    IN  IF found.result = "UserGranted"
        THEN found
        ELSE IF AdminCheck(username, password)
             THEN [result |-> "AdminGranted", index |-> -1]
             ELSE found

\* what login decides: the admin check, then the scan.  "AdminGranted" is the
\* return after "Admin login successful!", "UserGranted" the return after
\* "Login successful for user", "Denied" the end after "Login failed!"
LoginCheck(m, ca, username, password) ==
    IF AdminCheck(username, password)
    THEN [result |-> "AdminGranted", index |-> -1]
    ELSE ScanCheck(m, ca, username, password)

\* login's behaviour is undefined when it stores past buffer or query, when
\* printf takes a conversion from the username, or when user_count lets the
\* loop read past users[]
LoginUndefined(m, ca, username, password) ==
    \/ BufferOverrun(username, password) > 0
    \/ QueryOverrun(username, password) > 0
    \/ FormatConversion(username)
    \/ /\ ~AdminCheck(username, password)
       /\ ReadInt(m, ca) > MAX_USERS
       /\ ScanCheck(m, ca, username, password).result = "Denied"

\* what a call can produce: what the code decides and, where the behaviour
\* is undefined, also the death of the process (a smashed return address or
\* stack canary, a wild read or write)
LoginOutcomes(m, ca, username, password) ==
    {LoginCheck(m, ca, username, password)} \cup
    (IF LoginUndefined(m, ca, username, password)
     THEN {[result |-> "Crash", index |-> -1]}
     ELSE {})

\* login stores into its locals only: the globals are left alone
login(username, password) ==
    /\ ~crashed
    /\ car.pc = "idle"
    /\ \E out \in LoginOutcomes(mem, count_addr, Bytes(username), Bytes(password)) :
        /\ lastOp' = [op |-> "login", username |-> username,
                      password |-> password, result |-> out.result,
                      index |-> out.index,
                      overrun |-> BufferOverrun(Bytes(username), Bytes(password))
                                  + QueryOverrun(Bytes(username), Bytes(password))]
        /\ crashed' = (out.result = "Crash")
    /\ UNCHANGED <<mem, count_addr, created, fs, car>>

-----------------------------------------------------------------------------
(* allocate_session *)

\* the width of size_t in bits, scaled down
SIZE_BITS == 16

\* the largest size passed to allocate_session
MaxSize == 20

Sizes == (0 - 2)..MaxSize

\* (size_t)size, and size * sizeof(char) with sizeof(char) = 1
ToSizeT(size) == size % (2 ^ SIZE_BITS)

\* malloc returns NULL for every request above PTRDIFF_MAX
MallocLimit == 2 ^ (SIZE_BITS - 1) - 1

\* what malloc can return: NULL when memory is short, and for a request of 0
\* bytes either NULL or a pointer, as the C library chooses
MallocOutcomes(request) ==
    IF request > MallocLimit THEN {"NULL"} ELSE {"NULL", "ptr"}

\* result: "AllocationFailed" is the return after "Allocation failed",
\* "Allocated" the end after "Session allocated".  session: the bytes of the
\* buffer after memset; it is never freed and no pointer to it is kept.
allocate_session(size) ==
    /\ ~crashed
    /\ car.pc = "idle"
    /\ \E session \in MallocOutcomes(ToSizeT(size)) :
        lastOp' =
            IF session = "NULL"
            THEN [op |-> "allocate", size |-> size, malloc |-> "NULL",
                  result |-> "AllocationFailed", session |-> <<>>]
            ELSE [op |-> "allocate", size |-> size, malloc |-> "ptr",
                  result |-> "Allocated", session |-> Rep(0, ToSizeT(size))]
    /\ UNCHANGED <<mem, count_addr, crashed, created, fs, car>>

-----------------------------------------------------------------------------
(* process_token *)

\* if (strlen(token_copy) > 10)
TOKEN_FREE_LEN == 10

\* the longest token passed to process_token
MaxTokenLen == 12

\* the tokens: n times the character 't'
Tokens == {Rep(116, n) : n \in 0..MaxTokenLen}

\* if (strlen(token_copy) > 10) free(token_copy);
TokenFreed(token) == Len(token) > TOKEN_FREE_LEN

\* what the function does to token_copy, in program order
TokenEvents(token) ==
    <<"strdup", "read">>
    \o (IF TokenFreed(token) THEN <<"free">> ELSE <<>>)
    \o <<"read">>

\* what printf("Processing token: %s\n", token_copy) can print: the token,
\* and from a freed copy also whatever the allocator left there, or nothing
\* when the read kills the process
TokenPrints(token) ==
    {[how |-> "intact", text |-> token]} \cup
    (IF TokenFreed(token)
     THEN {[how |-> "garbage", text |-> <<>>], [how |-> "crash", text |-> <<>>]}
     ELSE {})

process_token(token) ==
    /\ ~crashed
    /\ car.pc = "idle"
    /\ \/ \* strdup returns NULL: strlen(NULL) kills the process
          /\ lastOp' = [op |-> "process_token", token |-> token,
                        events |-> <<"strdup">>,
                        printed |-> [how |-> "crash", text |-> <<>>]]
          /\ crashed' = TRUE
       \/ \E out \in TokenPrints(token) :
          /\ lastOp' = [op |-> "process_token", token |-> token,
                        events |-> TokenEvents(token), printed |-> out]
          /\ crashed' = (out.how = "crash")
    /\ UNCHANGED <<mem, count_addr, created, fs, car>>

-----------------------------------------------------------------------------
(* check_and_read_config *)

\* fread(buffer, 1, 1024, fp)
READ_SIZE == 1024

Files == {"A", "B"}

\* the length of each file in bytes
FileSize(f) == IF f = "A" THEN 10 ELSE 2000

\* the path does not exist
Absent == [exists |-> FALSE, readable |-> FALSE, file |-> "none"]

\* what the path can resolve to: nothing, or one of the files, readable by
\* the caller or not
FsStates ==
    {Absent} \cup
    {[exists |-> TRUE, readable |-> r, file |-> f] : r \in BOOLEAN, f \in Files}

\* access(filepath, R_OK) == 0
AccessOk(f) == f.exists /\ f.readable

\* fp = fopen(filepath, "r"); if (fp)
FopenOk(f) == f.exists /\ f.readable

\* the first step: access().  When it fails the function returns 0 without
\* opening anything.
CheckAccess ==
    /\ ~crashed
    /\ car.pc = "idle"
    /\ IF AccessOk(fs)
       THEN /\ car' = [pc |-> "checked", probed |-> fs.file]
            /\ UNCHANGED lastOp
       ELSE /\ lastOp' = [op |-> "check_and_read", ret |-> 0,
                          probed |-> "none", opened |-> "none", nread |-> 0,
                          existedAtOpen |-> FALSE]
            /\ UNCHANGED car
    /\ UNCHANGED <<mem, count_addr, crashed, created, fs>>

\* the second step: fopen(), fread(), fclose(), return 1; or return 0 when
\* fopen fails
CheckOpen ==
    /\ car.pc = "checked"
    /\ lastOp' =
        IF FopenOk(fs)
        THEN [op |-> "check_and_read", ret |-> 1, probed |-> car.probed,
              opened |-> fs.file,
              nread |-> IF FileSize(fs.file) < READ_SIZE
                        THEN FileSize(fs.file) ELSE READ_SIZE,
              existedAtOpen |-> TRUE]
        ELSE [op |-> "check_and_read", ret |-> 0, probed |-> car.probed,
              opened |-> "none", nread |-> 0, existedAtOpen |-> fs.exists]
    /\ car' = [pc |-> "idle", probed |-> "none"]
    /\ UNCHANGED <<mem, count_addr, crashed, created, fs>>

\* another process deletes the path, replaces what it resolves to, or changes
\* its permissions
EnvChange ==
    /\ \E f \in FsStates \ {fs} : fs' = f
    /\ UNCHANGED <<mem, count_addr, crashed, created, car, lastOp>>

-----------------------------------------------------------------------------
(* The specifications *)

Init ==
    /\ count_addr \in CountPlacements
    /\ mem = [a \in Addrs |-> 0]
    /\ crashed = FALSE
    /\ created = [i \in 0..(MAX_USERS - 1) |-> NoUser]
    /\ fs = [exists |-> TRUE, readable |-> TRUE, file |-> "A"]
    /\ car = [pc |-> "idle", probed |-> "none"]
    /\ lastOp = [op |-> "none"]

Register == \E u \in Names, p \in Passwords : register_user(u, p)

Login == \E u \in LoginNames, p \in Passwords : login(u, p)

AllocateSession == \E size \in Sizes : allocate_session(size)

ProcessToken == \E token \in Tokens : process_token(token)

\* the credential store: login and register_user
Next == Register \/ Login

Spec == Init /\ [][Next]_vars

\* the session functions
NextSession == AllocateSession \/ ProcessToken

SpecSession == Init /\ [][NextSession]_vars

\* check_and_read_config and the file system under it
NextFile == CheckAccess \/ CheckOpen \/ EnvChange

SpecFile == Init /\ [][NextFile]_vars

-----------------------------------------------------------------------------
(* Properties of the credential store, login and register_user *)

\* the indexes register_user reported filling with exactly this pair
FilledWith(username, password) ==
    {i \in 0..(MAX_USERS - 1) :
        created[i] = [username |-> username, password |-> password]}

\* the live records whose two fields hold exactly this pair
RecordsHolding(username, password) ==
    {i \in 0..(MAX_USERS - 1) :
        /\ i < user_count
        /\ FieldText(mem, UserAddr(i), USERNAME_SIZE) = Bytes(username)
        /\ FieldText(mem, PasswordAddr(i), PASSWORD_SIZE) = Bytes(password)}

\* C1: with capacity N = MAX_USERS, a register call made while fewer than N
\* users are stored succeeds and raises the count by exactly one, a call made
\* on a full store fails with CapacityExceeded and leaves the count at N, and
\* the count never exceeds the capacity, whatever strings are passed.
C1_CapacityBound ==
    /\ user_count >= 0
    /\ user_count <= MAX_USERS
    /\ lastOp.op = "register" =>
        IF lastOp.oldCount < MAX_USERS
        THEN lastOp.result = "Ok" /\ lastOp.newCount = lastOp.oldCount + 1
        ELSE lastOp.result = "CapacityExceeded" /\ lastOp.newCount = MAX_USERS

\* C2: login("admin", ADMIN_PASSWORD) returns AdminGranted in every state of
\* the store, whatever has been registered.
C2_AdminAlwaysGranted ==
    (lastOp.op = "login" /\ lastOp.username = "admin"
        /\ lastOp.password = ADMIN_PASSWORD)
    => lastOp.result = "AdminGranted"

\* C2's case: the admin pair logs in while the store is full and holds a
\* record registered as ("admin", ADMIN_PASSWORD), which the scan would match.
C2_Witness ==
    /\ lastOp.op = "login"
    /\ lastOp.username = "admin"
    /\ lastOp.password = ADMIN_PASSWORD
    /\ lastOp.result = "AdminGranted"
    /\ user_count = MAX_USERS
    /\ FilledWith("admin", ADMIN_PASSWORD) # {}
    /\ \E i \in Scanned(mem, count_addr) :
          RecordMatches(mem, i, Bytes("admin"), Bytes(ADMIN_PASSWORD))

\* C3: once register(u, p) has succeeded, every later login(u, p) is granted
\* to a user, by the first record in insertion order registered with (u, p).
\* (Stated for the pairs other than the built-in admin pair, which C2 gives
\* to AdminGranted, and for the logins that fit login's own buffers: the
\* statement checked is no stronger than the claim.)
C3_RegisteredThenGranted ==
    (/\ lastOp.op = "login"
     /\ ~(lastOp.username = "admin" /\ lastOp.password = ADMIN_PASSWORD)
     /\ lastOp.overrun = 0
     /\ FilledWith(lastOp.username, lastOp.password) # {})
    => /\ lastOp.result = "UserGranted"
       /\ lastOp.index = MinOf(FilledWith(lastOp.username, lastOp.password))

\* C7: register rejects with InvalidInput every username or password longer
\* than 31 characters, and the rejected call leaves the count as it was.
C7_LongInputRejected ==
    (/\ lastOp.op = "register"
     /\ (Len(Bytes(lastOp.username)) > USERNAME_SIZE - 1
            \/ Len(Bytes(lastOp.password)) > PASSWORD_SIZE - 1))
    => /\ lastOp.result = "InvalidInput"
       /\ lastOp.newCount = lastOp.oldCount

\* C8: login stores nothing past the end of its internal buffers, whatever
\* the lengths of its inputs.
C8_LoginNoOverrun ==
    lastOp.op = "login" => lastOp.overrun = 0

\* C9: login returns UserGranted only if some record of the store holds a
\* username exactly equal to the given username and a password exactly equal
\* to the given password.  (The "only if" half of the claim; its other half,
\* Denied exactly when nothing matches, is not needed to refute it.)
C9_GrantedOnlyOnExactMatch ==
    (lastOp.op = "login" /\ lastOp.result = "UserGranted")
    => RecordsHolding(lastOp.username, lastOp.password) # {}

\* C10: the store is append-only: a register_user call changes no byte of
\* the globals other than the record at the old count and the count itself
\* (so every record below the count keeps what it was created with).
C10_AppendOnly ==
    [][\A a \in Addrs :
          Peek(mem', a) # Peek(mem, a) =>
              \/ (a >= UserAddr(user_count) /\ a < UserAddr(user_count) + USER_SIZE)
              \/ (a >= count_addr /\ a < count_addr + INT_SIZE)]_vars

-----------------------------------------------------------------------------
(* Properties of the session functions *)

\* C4: process_token never reads its copy of the token after releasing it:
\* no read of token_copy follows its free, for a token of any length.
C4_NoReadAfterFree ==
    lastOp.op = "process_token" =>
        \A i, j \in 1..Len(lastOp.events) :
            (i < j /\ lastOp.events[i] = "free") => lastOp.events[j] # "read"

\* C5: allocate(size) fails for every size <= 0 without allocating a buffer,
\* and for every size k > 0 for which memory is there it produces a buffer of
\* exactly k bytes, all zero.
C5_AllocateChecked ==
    lastOp.op = "allocate" =>
        /\ lastOp.size <= 0 =>
              lastOp.result = "AllocationFailed" /\ lastOp.malloc = "NULL"
        /\ (lastOp.size > 0 /\ lastOp.malloc = "ptr") =>
              /\ lastOp.result = "Allocated"
              /\ lastOp.session = Rep(0, lastOp.size)

-----------------------------------------------------------------------------
(* Properties of check_and_read_config *)

\* C6: whatever another process does to the path during the call,
\* checkAndRead succeeds only on a path that exists when it is opened, and
\* what it reads on success is the file its permission decision was made on.
C6_ReadsTheFileChecked ==
    lastOp.op = "check_and_read" =>
        /\ lastOp.ret = 1 => lastOp.opened = lastOp.probed
        /\ ~lastOp.existedAtOpen => lastOp.ret = 0

====
